---- MODULE Spec2Model ----
(***************************************************************************)
(* ax/core/observation.py: ObservationFeatures, ObservationData,           *)
(* Observation, observations_from_data and separate_observations.          *)
(*                                                                         *)
(* Python objects live in heaps (sequences indexed by address), so that    *)
(* two references to one dict are told apart from two equal dicts.         *)
(* An Optional value is a sequence of length at most one: <<>> is None     *)
(* (or a missing table cell, NaN / NaT), <<v>> is the value v.             *)
(***************************************************************************)
EXTENDS Integers, Sequences, FiniteSets, TLC

VARIABLES
    dicts,          \* heap of parameter mappings (dict objects)
    feats,          \* heap of ObservationFeatures objects
    datas,          \* heap of ObservationData objects
    df,             \* data.df: [columns, rows]
    observations,   \* list returned by the last observations_from_data call
    separated,      \* value returned by the last separate_observations call
    returned,       \* value returned by the last update_features call
    raised,         \* exception raised by the last call, "" when none
    call,           \* the last call, its arguments and the values it saw
    origin,         \* per Feature Point: the arm from_arm made it from, or ""
    args            \* the arrays a client holds to build an ObservationData from

vars ==
    <<dicts, feats, datas, df, observations, separated, returned, raised, call,
      origin, args>>

None == <<>>
Some(v) == <<v>>

(***************************************************************************)
(* Bounds and input sets                                                   *)
(***************************************************************************)
MaxCalls == 3
MaxRows == 2
MaxDims == 2
MaxK == 2
MaxDataCalls == 1
MaxRuns == 2

ParamNames == {"x", "y"}
ArmNames == {"a1", "a2"}
CtxFields == {"trial_index", "start_time", "end_time", "random_split"}

EmptyDict == <<>>
Dict1(k, v) == [n \in {k} |-> v]
Dict2(k1, v1, k2, v2) == [n \in {k1, k2} |-> IF n = k1 THEN v1 ELSE v2]

\* experiment.arms_by_name[name].parameters: the address of the arm's mapping
arms_by_name == [a \in ArmNames |-> IF a = "a1" THEN 1 ELSE 2]

\* The arm registries the runs start from: a1 has both parameters, a2 has
\* one or none.
Registries ==
    { <<Dict2("x", 1, "y", 2), d>> : d \in {EmptyDict, Dict1("x", 1)} }

\* Parameter mappings callers pass to ObservationFeatures directly.
CallerDicts == {Dict1("x", 5), Dict2("x", 5, "y", 6)}

\* Context arguments: each field is set in some and unset in others.
CtxChoices ==
    {{}, CtxFields, {"trial_index", "end_time"}, {"start_time", "random_split"}}
CtxVals == {1, 2}
Contexts ==
    { [f \in CtxFields |-> IF f \in S THEN Some(v) ELSE None] :
        S \in CtxChoices, v \in CtxVals }

(***************************************************************************)
(* ObservationFeatures                                                     *)
(***************************************************************************)
\* ObservationFeatures.__init__: the object keeps the reference it is given.
ObservationFeatures(parameters, trial_index, start_time, end_time, random_split) ==
    [parameters |-> parameters, trial_index |-> trial_index,
     start_time |-> start_time, end_time |-> end_time,
     random_split |-> random_split]

\* Arm.parameters: the arm's parameter mapping.
ArmParameters(arm) == arms_by_name[arm]

\* ObservationFeatures.from_arm
from_arm(arm, trial_index, start_time, end_time, random_split) ==
    ObservationFeatures(ArmParameters(arm), trial_index, start_time, end_time,
                        random_split)

\* dict.update, as a plausible slip: existing keys are kept (setdefault)
DictUpdateKeepOld(a, b) ==
    [k \in DOMAIN a \cup DOMAIN b |-> IF k \in DOMAIN a THEN a[k] ELSE b[k]]

\* self.parameters.update(new_features.parameters)
DictUpdate(a, b) ==
    [k \in DOMAIN a \cup DOMAIN b |-> IF k \in DOMAIN b THEN b[k] ELSE a[k]]

\* if new_features.<field> is not None: self.<field> = new_features.<field>
MergeField(old, new) == IF new # None THEN new ELSE old

\* The value of a Feature Point: its fields, with its mapping's contents.
View(D, F, f) ==
    [parameters |-> D[F[f].parameters], trial_index |-> F[f].trial_index,
     start_time |-> F[f].start_time, end_time |-> F[f].end_time,
     random_split |-> F[f].random_split]

Calls == call.n

\* ObservationFeatures(parameters=<a dict of the caller>, ...)
Construct(d, c) ==
    /\ Calls < MaxCalls
    /\ dicts' = Append(dicts, d)
    /\ feats' = Append(feats,
           ObservationFeatures(Len(dicts) + 1, c["trial_index"], c["start_time"],
                               c["end_time"], c["random_split"]))
    /\ raised' = ""
    /\ call' = [op |-> "ObservationFeatures", n |-> Calls + 1, self |-> Len(feats) + 1]
    /\ origin' = Append(origin, "")
    /\ UNCHANGED <<datas, df, observations, separated, returned, args>>

\* ObservationFeatures.from_arm(arm, ...)
FromArm(arm, c) ==
    /\ Calls < MaxCalls
    /\ feats' = Append(feats,
           from_arm(arm, c["trial_index"], c["start_time"], c["end_time"],
                    c["random_split"]))
    /\ raised' = ""
    /\ call' = [op |-> "from_arm", n |-> Calls + 1, self |-> Len(feats) + 1,
                arm |-> arm, ctx |-> c, arm_before |-> dicts[arms_by_name[arm]]]
    /\ origin' = Append(origin, arm)
    /\ UNCHANGED <<dicts, datas, df, observations, separated, returned, args>>

\* self.update_features(new_features)
update_features(self, new_features) ==
    /\ dicts' = [dicts EXCEPT ![feats[self].parameters] =
                    DictUpdate(@, dicts[feats[new_features].parameters])]
    /\ feats' = [feats EXCEPT ![self] =
           [parameters |-> @.parameters,
            trial_index |-> MergeField(@.trial_index, feats[new_features].trial_index),
            start_time |-> MergeField(@.start_time, feats[new_features].start_time),
            end_time |-> MergeField(@.end_time, feats[new_features].end_time),
            random_split |-> MergeField(@.random_split, feats[new_features].random_split)]]
    /\ returned' = self

UpdateFeatures(self, new_features) ==
    /\ Calls < MaxCalls
    /\ update_features(self, new_features)
    /\ raised' = ""
    /\ call' = [op |-> "update_features", n |-> Calls + 1, self |-> self,
                new |-> new_features,
                self_before |-> View(dicts, feats, self),
                new_before |-> View(dicts, feats, new_features),
                arms_before |-> [a \in ArmNames |-> dicts[arms_by_name[a]]],
                feats_before |-> [f \in 1..Len(feats) |-> View(dicts, feats, f)]]
    /\ UNCHANGED <<datas, df, observations, separated, origin, args>>

NoTable == [columns |-> {}, rows |-> <<>>]
NoCall == [op |-> "", n |-> 0]

InitFeat ==
    /\ dicts \in Registries
    /\ feats = <<>>
    /\ datas = <<>>
    /\ df = NoTable
    /\ observations = <<>>
    /\ separated = <<>>
    /\ returned = 0
    /\ raised = ""
    /\ call = NoCall
    /\ origin = <<>>
    /\ args = <<>>

NextFeat ==
    \/ \E d \in CallerDicts, c \in Contexts : Construct(d, c)
    \/ \E arm \in ArmNames, c \in Contexts : FromArm(arm, c)
    \/ \E a \in 1..Len(feats), b \in 1..Len(feats) : UpdateFeatures(a, b)

SpecFeat == InitFeat /\ [][NextFeat]_vars

(***************************************************************************)
(* ObservationData                                                         *)
(***************************************************************************)
\* A numpy array: its shape and its elements in row-major order.
RECURSIVE Product(_)
Product(shape) == IF shape = <<>> THEN 1 ELSE Head(shape) * Product(Tail(shape))

Zeros(shape) == [shape |-> shape, data |-> [i \in 1..Product(shape) |-> 0]]

RECURSIVE ShapesOfRank(_)
ShapesOfRank(r) ==
    IF r = 0 THEN {<<>>}
    ELSE { Append(s, n) : s \in ShapesOfRank(r - 1), n \in 0..MaxK }

Shapes == UNION { ShapesOfRank(r) : r \in 0..MaxDims }

MetricNames == <<"m1", "m2", "m3", "m4">>

\* ObservationData.__init__ with the covariance check left out
ObservationDataErrorNoCov(metric_names, means, covariance) ==
    LET k == Len(metric_names)
    IN  IF means.shape # <<k>> THEN "ValueError" ELSE ""

\* ObservationData.__init__: the exception its shape checks raise, "" if none
ObservationDataError(metric_names, means, covariance) ==
    LET k == Len(metric_names)
    IN  IF means.shape # <<k>> THEN "ValueError"
        ELSE IF covariance.shape # <<k, k>> THEN "ValueError"
        ELSE ""

\* ObservationData.__init__: the object a successful construction leaves
ObservationData(metric_names, means, covariance) ==
    [metric_names |-> metric_names, means |-> means, covariance |-> covariance]

\* ObservationData(metric_names, means, covariance) called by a client
NewObservationData(metric_names, means, covariance) ==
    /\ Calls < MaxDataCalls
    /\ raised' = ObservationDataError(metric_names, means, covariance)
    /\ datas' = IF raised' = ""
                THEN Append(datas, ObservationData(metric_names, means, covariance))
                ELSE datas
    /\ call' = [op |-> "ObservationData", n |-> Calls + 1,
                metric_names |-> metric_names, means |-> means,
                covariance |-> covariance, datas_before |-> datas]
    /\ UNCHANGED <<dicts, feats, df, observations, separated, returned, origin, args>>

(***************************************************************************)
(* observations_from_data                                                  *)
(***************************************************************************)
IdCols ==
    {"arm_name", "trial_index", "start_time", "end_time", "random_split",
     "fidelities"}
StrCols == {"arm_name", "fidelities"}

\* The encoded fidelities the tables hold, and what json.loads makes of each.
FidX == "{\"x\": 5}"
FidXCompact == "{\"x\":5}"
FidY == "{\"y\": 7}"
FidNone == "{}"
Fidelities == {FidX, FidXCompact, FidY, FidNone}

json_loads(s) ==
    CASE s = FidX -> Dict1("x", 5)
      [] s = FidXCompact -> Dict1("x", 5)
      [] s = FidY -> Dict1("y", 7)
      [] s = FidNone -> EmptyDict

\* The strings of the tables in the order pandas sorts them (by code point).
StringOrder == <<"a1", "a2", FidX, FidXCompact, FidY, FidNone>>
StrRank(s) == CHOOSE i \in 1..Len(StringOrder) : StringOrder[i] = s
Rank(col, v) == IF col \in StrCols THEN StrRank(v) ELSE v

\* list(set): the elements of the set in any order
Perms(S) ==
    { p \in [1..Cardinality(S) -> S] : \A i, j \in 1..Cardinality(S) : p[i] = p[j] => i = j }

\* The group key of a row: its cells in the grouping columns.
KeyOf(row, cols) == [i \in 1..Len(cols) |-> row[cols[i]]]
HasNull(row, cols) == \E i \in 1..Len(cols) : row[cols[i]] = None

KeyLess(k1, k2, cols) ==
    \E i \in 1..Len(cols) :
        /\ \A j \in 1..(i - 1) : k1[j] = k2[j]
        /\ Rank(cols[i], k1[i][1]) < Rank(cols[i], k2[i][1])

RECURSIVE SortedKeys(_, _)
SortedKeys(K, cols) ==
    IF K = {} THEN <<>>
    ELSE LET m == CHOOSE k \in K : \A o \in K \ {k} : KeyLess(k, o, cols)
         IN  <<m>> \o SortedKeys(K \ {m}, cols)

RECURSIVE RowsOf(_, _, _, _)
RowsOf(rows, cols, key, i) ==
    IF i > Len(rows) THEN <<>>
    ELSE (IF KeyOf(rows[i], cols) = key THEN <<rows[i]>> ELSE <<>>)
         \o RowsOf(rows, cols, key, i + 1)

\* data.df.groupby(by=feature_cols): rows with a missing key cell are left
\* out, the groups come in sorted key order, each with its rows in table order.
groupby(rows, cols) ==
    LET kept == { i \in 1..Len(rows) : ~HasNull(rows[i], cols) }
        keys == SortedKeys({ KeyOf(rows[i], cols) : i \in kept }, cols)
    IN  [n \in 1..Len(keys) |-> [g |-> keys[n], d |-> RowsOf(rows, cols, keys[n], 1)]]

\* features = dict(zip(feature_cols, g)); features.get(f, None)
FeatureGet(cols, g, f) ==
    IF \E i \in 1..Len(cols) : cols[i] = f
    THEN g[CHOOSE i \in 1..Len(cols) : cols[i] = f]
    ELSE None

\* experiment.arms_by_name[...].parameters with the .copy() left out
CopyParametersAlias(D, addr) == [dicts |-> D, addr |-> addr]

\* experiment.arms_by_name[...].parameters.copy(): a new dict, same entries
CopyParameters(D, addr) == [dicts |-> Append(D, D[addr]), addr |-> Len(D) + 1]

\* for param_name, val in fidelity_dict.items(): obs_parameters[param_name] = val,
\* as a plausible slip: only parameters the arm already has are overridden
ApplyFidelitiesKnownOnly(obs_parameters, fidelity_dict) ==
    [k \in DOMAIN obs_parameters |->
        IF k \in DOMAIN fidelity_dict THEN fidelity_dict[k] ELSE obs_parameters[k]]

\* for param_name, val in fidelity_dict.items(): obs_parameters[param_name] = val
ApplyFidelities(obs_parameters, fidelity_dict) ==
    [k \in DOMAIN obs_parameters \cup DOMAIN fidelity_dict |->
        IF k \in DOMAIN fidelity_dict THEN fidelity_dict[k] ELSE obs_parameters[k]]

\* np.diag(v) without the squares
SemCovarianceUnsquared(sems) ==
    LET k == Len(sems)
    IN  [shape |-> <<k, k>>,
         data |-> [n \in 1..(k * k) |->
                     IF (n - 1) \div k = (n - 1) % k
                     THEN sems[((n - 1) \div k) + 1] ELSE 0]]

\* np.diag(d["sem"].values ** 2)
SemCovariance(sems) ==
    LET k == Len(sems)
    IN  [shape |-> <<k, k>>,
         data |-> [n \in 1..(k * k) |->
                     IF (n - 1) \div k = (n - 1) % k
                     THEN sems[((n - 1) \div k) + 1] * sems[((n - 1) \div k) + 1]
                     ELSE 0]]

\* d["mean"].values
Vector(vals) == [shape |-> <<Len(vals)>>, data |-> vals]

Column(d, c) == [i \in 1..Len(d) |-> d[i][c]]

Observation(features, data, arm_name) ==
    [features |-> features, data |-> data, arm_name |-> arm_name]

\* One turn of the loop over the groups. st is the loop's state: the heaps,
\* the observations so far and the exception raised, "" while there is none.
ConvertGroup(st, cols, grp) ==
    IF st.raised # "" THEN st
    ELSE
    LET arm_name == FeatureGet(cols, grp.g, "arm_name")[1]
        cp == CopyParameters(st.dicts, ArmParameters(arm_name))
        has_parameters == cp.dicts[cp.addr] # EmptyDict
        fid == FeatureGet(cols, grp.g, "fidelities")
        D == IF fid # None
             THEN [cp.dicts EXCEPT ![cp.addr] = ApplyFidelities(@, json_loads(fid[1]))]
             ELSE cp.dicts
        metric_names == Column(grp.d, "metric_name")
        means == Vector(Column(grp.d, "mean"))
        covariance == SemCovariance(Column(grp.d, "sem"))
        data_error == ObservationDataError(metric_names, means, covariance)
    IN  IF ~has_parameters
        THEN [st EXCEPT !.raised = "TypeError"]
        ELSE IF data_error # ""
        THEN [st EXCEPT !.raised = data_error]
        ELSE [dicts |-> D,
              feats |-> Append(st.feats,
                  ObservationFeatures(cp.addr,
                      FeatureGet(cols, grp.g, "trial_index"),
                      FeatureGet(cols, grp.g, "start_time"),
                      FeatureGet(cols, grp.g, "end_time"),
                      FeatureGet(cols, grp.g, "random_split"))),
              datas |-> Append(st.datas,
                  ObservationData(metric_names, means, covariance)),
              observations |-> Append(st.observations,
                  Observation(Len(st.feats) + 1, Len(st.datas) + 1, arm_name)),
              raised |-> ""]

RECURSIVE ConvertGroups(_, _, _, _)
ConvertGroups(st, cols, groups, n) ==
    IF n > Len(groups) THEN st
    ELSE ConvertGroups(ConvertGroup(st, cols, groups[n]), cols, groups, n + 1)

\* observations_from_data(experiment, data), feature_cols being the order the
\* set intersection came out in
observations_from_data(feature_cols) ==
    ConvertGroups([dicts |-> dicts, feats |-> feats, datas |-> datas,
                   observations |-> <<>>, raised |-> ""],
                  feature_cols, groupby(df.rows, feature_cols), 1)

\* The value of an Observation: its arm, its Feature Point and its outcomes.
ObsView(D, F, T, o) ==
    [arm_name |-> o.arm_name, features |-> View(D, F, o.features), data |-> T[o.data]]

ArmsView(D) == [a \in ArmNames |-> D[arms_by_name[a]]]

ObservationsFromData(feature_cols) ==
    /\ Calls < MaxRuns
    /\ \E r \in {observations_from_data(feature_cols)} :
           /\ raised' = r.raised
           /\ observations' = IF r.raised = "" THEN r.observations ELSE <<>>
           /\ dicts' = IF r.raised = "" THEN r.dicts ELSE dicts
           /\ feats' = IF r.raised = "" THEN r.feats ELSE feats
           /\ datas' = IF r.raised = "" THEN r.datas ELSE datas
           /\ origin' = [i \in 1..Len(feats') |-> IF i <= Len(origin) THEN origin[i] ELSE ""]
           /\ call' = [op |-> "observations_from_data", n |-> Calls + 1,
                       groups |-> groupby(df.rows, feature_cols),
                       arms_before |-> ArmsView(dicts),
                       before |-> IF call.op = "observations_from_data"
                                  THEN Some([raised |-> raised,
                                             observations |->
                                               [i \in 1..Len(observations) |->
                                                  ObsView(dicts, feats, datas, observations[i])]])
                                  ELSE None]
    /\ UNCHANGED <<df, separated, returned, args>>

\* The measurement tables.
Measurements ==
    { [metric_name |-> "m1", mean |-> 3, sem |-> 2],
      [metric_name |-> "m2", mean |-> 4, sem |-> 3] }

CellValues(col) ==
    CASE col = "arm_name" -> { Some(a) : a \in ArmNames }
      [] col = "trial_index" -> {None, Some(0), Some(1)}
      [] col = "start_time" -> {Some(1)}
      [] col = "end_time" -> {Some(2)}
      [] col = "random_split" -> {Some(0), Some(1)}
      [] col = "fidelities" -> { Some(f) : f \in Fidelities }

\* The cells a table with the given columns can hold in column col; the
\* cells of a column the table lacks are never read and are left missing.
Cells(col, columns) == IF col \in columns THEN CellValues(col) ELSE {None}

Rows(columns) ==
    { [arm_name |-> a, trial_index |-> t, start_time |-> s, end_time |-> e,
       random_split |-> r, fidelities |-> f,
       metric_name |-> m.metric_name, mean |-> m.mean, sem |-> m.sem] :
        a \in Cells("arm_name", columns), t \in Cells("trial_index", columns),
        s \in Cells("start_time", columns), e \in Cells("end_time", columns),
        r \in Cells("random_split", columns), f \in Cells("fidelities", columns),
        m \in Measurements }

ColumnSets ==
    { {"arm_name"},
      {"arm_name", "trial_index"},
      {"arm_name", "fidelities"},
      {"arm_name", "start_time", "end_time"},
      {"arm_name", "random_split"} }

Tables ==
    UNION { { [columns |-> cs \cup {"metric_name", "mean", "sem"}, rows |-> rs] :
                rs \in UNION { [1..n -> Rows(cs)] : n \in 0..MaxRows } } :
            cs \in ColumnSets }

InitConv ==
    /\ dicts \in Registries
    /\ feats = <<>>
    /\ datas = <<>>
    /\ df \in Tables
    /\ observations = <<>>
    /\ separated = <<>>
    /\ returned = 0
    /\ raised = ""
    /\ call = NoCall
    /\ origin = <<>>
    /\ args = <<>>

NextConv ==
    \E feature_cols \in Perms(IdCols \cap df.columns) : ObservationsFromData(feature_cols)

SpecConv == InitConv /\ [][NextConv]_vars

\* The same runs from the registries in which every arm has parameters.
InitGroup == InitConv /\ \A a \in ArmNames : dicts[arms_by_name[a]] # EmptyDict

SpecGroup == InitGroup /\ [][NextConv]_vars

(***************************************************************************)
(* Clients writing to a Feature Point they hold                            *)
(***************************************************************************)
\* The value a client writes: one no arm, caller or table holds.
NewValues == {9}

\* features.parameters[k] = v
SetParameter(self, k, v) ==
    /\ Calls < MaxCalls
    /\ dicts' = [dicts EXCEPT ![feats[self].parameters] =
                    [n \in DOMAIN @ \cup {k} |-> IF n = k THEN v ELSE @[n]]]
    /\ raised' = ""
    /\ call' = [op |-> "set_parameter", n |-> Calls + 1, self |-> self,
                arms_before |-> ArmsView(dicts),
                feats_before |-> [f \in 1..Len(feats) |-> View(dicts, feats, f)]]
    /\ UNCHANGED <<feats, datas, df, observations, separated, returned, origin, args>>

\* features.<field> = v
SetField(self, field, v) ==
    /\ Calls < MaxCalls
    /\ feats' = [feats EXCEPT ![self][field] = v]
    /\ raised' = ""
    /\ call' = [op |-> "set_field", n |-> Calls + 1, self |-> self,
                arms_before |-> ArmsView(dicts),
                feats_before |-> [f \in 1..Len(feats) |-> View(dicts, feats, f)]]
    /\ UNCHANGED <<dicts, datas, df, observations, separated, returned, origin, args>>

(***************************************************************************)
(* separate_observations                                                   *)
(***************************************************************************)
\* copy.copy(obs.features): a new object holding the same dict
ShallowCopyFeatures(D, F, f) ==
    [dicts |-> D, feats |-> Append(F, F[f]), addr |-> Len(F) + 1]

\* deepcopy(obs.features): a new object holding a new dict with the same entries
DeepCopyFeatures(D, F, f) ==
    [dicts |-> Append(D, D[F[f].parameters]),
     feats |-> Append(F, [F[f] EXCEPT !.parameters = Len(D) + 1]),
     addr |-> Len(F) + 1]

\* deepcopy(obs.data): a new object with the same names and arrays
DeepCopyData(T, d) == [datas |-> Append(T, T[d]), addr |-> Len(T) + 1]

\* [deepcopy(obs.features) for obs in observations], from the i-th on
RECURSIVE CopyAllFeatures(_, _, _, _)
CopyAllFeatures(st, obs, i, out) ==
    IF i > Len(obs) THEN [dicts |-> st.dicts, feats |-> st.feats, out |-> out]
    ELSE LET c == DeepCopyFeatures(st.dicts, st.feats, obs[i].features)
         IN  CopyAllFeatures(c, obs, i + 1, Append(out, c.addr))

\* [deepcopy(obs.data) for obs in observations], from the i-th on
RECURSIVE CopyAllData(_, _, _, _)
CopyAllData(T, obs, i, out) ==
    IF i > Len(obs) THEN [datas |-> T, out |-> out]
    ELSE LET c == DeepCopyData(T, obs[i].data)
         IN  CopyAllData(c.datas, obs, i + 1, Append(out, c.addr))

\* separate_observations(observations, copy); the value returned is the pair
\* (observation_features, observation_data), kept with the arguments it had.
separate_observations(obs, copy) ==
    IF copy
    THEN \E cf \in {CopyAllFeatures([dicts |-> dicts, feats |-> feats], obs, 1, <<>>)},
            cd \in {CopyAllData(datas, obs, 1, <<>>)} :
            /\ dicts' = cf.dicts
            /\ feats' = cf.feats
            /\ datas' = cd.datas
            /\ separated' = [observation_features |-> cf.out,
                             observation_data |-> cd.out,
                             observations |-> obs, copy |-> copy]
    ELSE /\ separated' = [observation_features |-> [i \in 1..Len(obs) |-> obs[i].features],
                          observation_data |-> [i \in 1..Len(obs) |-> obs[i].data],
                          observations |-> obs, copy |-> copy]
         /\ UNCHANGED <<dicts, feats, datas>>

SeparateObservations(copy) ==
    /\ Calls < MaxCalls
    /\ separate_observations(observations, copy)
    /\ raised' = ""
    /\ origin' = [i \in 1..Len(feats') |-> IF i <= Len(origin) THEN origin[i] ELSE ""]
    /\ call' = [op |-> "separate_observations", n |-> Calls + 1]
    /\ UNCHANGED <<df, observations, returned, args>>

\* Two-row tables of one metric, grouped by arm and fidelities or by arm and
\* trial.
OwnTables ==
    { t \in Tables :
        /\ Len(t.rows) = 2
        /\ (t.columns \cap IdCols) \in
              {{"arm_name", "fidelities"}, {"arm_name", "trial_index"}}
        /\ \A i \in 1..2 :
              /\ t.rows[i].metric_name = "m1"
              /\ t.rows[i].fidelities \in {None, Some(FidX), Some(FidY)}
              /\ t.rows[i].trial_index \in {None, Some(0)} \/ "trial_index" \in t.columns }

InitOwn ==
    /\ dicts \in Registries
    /\ feats = <<>>
    /\ datas = <<>>
    /\ df \in OwnTables
    /\ observations = <<>>
    /\ separated = <<>>
    /\ returned = 0
    /\ raised = ""
    /\ call = NoCall
    /\ origin = <<>>
    /\ args = <<>>

NextOwn ==
    \/ \E feature_cols \in Perms(IdCols \cap df.columns) : ObservationsFromData(feature_cols)
    \/ \E i \in 1..Len(observations), k \in ParamNames :
          \E v \in NewValues : SetParameter(observations[i].features, k, v)
    \/ \E a \in 1..Len(feats), b \in 1..Len(feats) : UpdateFeatures(a, b)

SpecOwn == InitOwn /\ [][NextOwn]_vars

NextSep ==
    \/ \E feature_cols \in Perms(IdCols \cap df.columns) : ObservationsFromData(feature_cols)
    \/ \E copy \in BOOLEAN : SeparateObservations(copy)
    \/ \E f \in 1..Len(feats), k \in ParamNames, v \in NewValues : SetParameter(f, k, v)
    \/ \E f \in 1..Len(feats), field \in CtxFields, v \in NewValues :
          SetField(f, field, Some(v))

SpecSep == InitOwn /\ [][NextSep]_vars

(***************************************************************************)
(* What the claims about observations_from_data speak of                   *)
(***************************************************************************)
IsConversion == call.op = "observations_from_data"

\* The Feature Point and the Outcome Bundle of the i-th returned Observation.
ObsFeatures(i) == View(dicts, feats, observations[i].features)
ObsData(i) == datas[observations[i].data]

\* A row's values in the identifying columns the table has.
IdTuple(row) == [c \in IdCols \cap df.columns |-> row[c]]

RECURSIVE MetricsOf(_, _)
MetricsOf(t, i) ==
    IF i > Len(df.rows) THEN <<>>
    ELSE (IF IdTuple(df.rows[i]) = t THEN <<df.rows[i].metric_name>> ELSE <<>>)
         \o MetricsOf(t, i + 1)

\* Observation i is the one of the rows whose identifying values are t.
Carries(i, t) ==
    /\ observations[i].arm_name = t["arm_name"][1]
    /\ \A c \in CtxFields :
          ObsFeatures(i)[c] = IF c \in df.columns THEN t[c] ELSE None
    /\ ObsData(i).metric_names = MetricsOf(t, 1)

(***************************************************************************)
(* C1: observations_from_data returns exactly one Observation per distinct *)
(* tuple of values of the identifying columns the table has, each with the *)
(* metric names of its rows in table order, so that every row contributes  *)
(* to exactly one Observation.                                             *)
(***************************************************************************)
C1_OneObservationPerTuple ==
    IsConversion =>
        LET tuples == { IdTuple(df.rows[i]) : i \in 1..Len(df.rows) }
        IN  /\ raised = ""
            /\ Len(observations) = Cardinality(tuples)
            /\ \E f \in [tuples -> 1..Len(observations)] :
                  /\ \A t, u \in tuples : f[t] = f[u] => t = u
                  /\ \A t \in tuples : Carries(f[t], t)

(***************************************************************************)
(* C2: a group whose arm has an empty parameter mapping is accepted: the   *)
(* call does not fail and the group's Feature Point has the decoded        *)
(* fidelities as its parameters, or no parameters without that column.     *)
(***************************************************************************)
C2_EmptyArmAccepted ==
    IsConversion =>
        \A i \in 1..Len(call.groups) :
            call.arms_before[call.groups[i].d[1].arm_name[1]] = EmptyDict =>
                /\ raised = ""
                /\ ObsFeatures(i).parameters =
                      IF "fidelities" \in df.columns
                      THEN json_loads(call.groups[i].d[1].fidelities[1])
                      ELSE EmptyDict

(***************************************************************************)
(* C3: with a fidelities column, each emitted Feature Point's parameters   *)
(* are the arm's registered parameters with every key of the decoded       *)
(* fidelities set to the fidelity value: shared keys take it, keys of the  *)
(* fidelities alone are added, keys of the arm alone keep the arm's value. *)
(***************************************************************************)
C3_FidelityOverride ==
    (IsConversion /\ raised = "" /\ "fidelities" \in df.columns) =>
        /\ Len(observations) = Len(call.groups)
        /\ \A i \in 1..Len(observations) :
              LET arm == call.arms_before[observations[i].arm_name]
                  fid == json_loads(call.groups[i].d[1].fidelities[1])
                  P == ObsFeatures(i).parameters
              IN  /\ observations[i].arm_name = call.groups[i].d[1].arm_name[1]
                  /\ DOMAIN P = DOMAIN arm \cup DOMAIN fid
                  /\ \A k \in DOMAIN fid : P[k] = fid[k]
                  /\ \A k \in DOMAIN arm \ DOMAIN fid : P[k] = arm[k]

\* One call overriding a shared key beside a key of the arm alone, and adding
\* a key the arm lacks.
C3_Witness ==
    /\ IsConversion /\ raised = "" /\ "fidelities" \in df.columns
    /\ \E i \in 1..Len(observations) :
          LET arm == call.arms_before[observations[i].arm_name]
              fid == json_loads(call.groups[i].d[1].fidelities[1])
          IN  /\ \E k \in DOMAIN arm \cap DOMAIN fid : arm[k] # fid[k]
              /\ DOMAIN arm \ DOMAIN fid # {}
    /\ \E i \in 1..Len(observations) :
          LET arm == call.arms_before[observations[i].arm_name]
              fid == json_loads(call.groups[i].d[1].fidelities[1])
          IN  DOMAIN fid \ DOMAIN arm # {}

(***************************************************************************)
(* C4: two runs on the same arm registry and table return the Observations *)
(* in the same order, whatever order the identifying columns come out of   *)
(* the set intersection.                                                   *)
(***************************************************************************)
C4_SameOrderEveryRun ==
    (IsConversion /\ call.before # None) =>
        call.before[1] =
            [raised |-> raised,
             observations |->
                [i \in 1..Len(observations) |->
                    ObsView(dicts, feats, datas, observations[i])]]

(***************************************************************************)
(* C10: for every Observation made from a group of k rows, means is the    *)
(* k-vector of the rows' means in row order and covariance is the k-by-k   *)
(* matrix with the squared sem of row i at (i, i) and zero elsewhere; the  *)
(* shape check of ObservationData never fails inside the call.             *)
(***************************************************************************)
C10_DiagonalCovariance ==
    IsConversion =>
        /\ raised # "ValueError"
        /\ raised = "" =>
              /\ Len(observations) = Len(call.groups)
              /\ \A i \in 1..Len(observations) :
                    LET d == call.groups[i].d
                        k == Len(d)
                    IN  /\ ObsData(i).means.shape = <<k>>
                        /\ ObsData(i).means.data = [r \in 1..k |-> d[r].mean]
                        /\ ObsData(i).covariance.shape = <<k, k>>
                        /\ Len(ObsData(i).covariance.data) = k * k
                        /\ \A r, c \in 1..k :
                              ObsData(i).covariance.data[(r - 1) * k + c] =
                                  IF r = c THEN d[r].sem * d[r].sem ELSE 0

\* An Observation of two rows that differ in mean and sem.
C10_Witness ==
    /\ IsConversion /\ raised = ""
    /\ \E i \in 1..Len(observations) :
          /\ Len(call.groups[i].d) = 2
          /\ call.groups[i].d[1].sem # call.groups[i].d[2].sem
          /\ call.groups[i].d[1].mean # call.groups[i].d[2].mean

(***************************************************************************)
(* C5: every returned Observation owns its parameter mapping: building a   *)
(* group, fidelity override included, leaves the arm registry as it was,   *)
(* and a later update_features or parameter write on one returned Feature  *)
(* Point leaves the parameters of every other one and of the registry      *)
(* unchanged.                                                              *)
(***************************************************************************)
C5_OwnParameters ==
    /\ IsConversion => ArmsView(dicts) = call.arms_before
    /\ \A i, j \in 1..Len(observations) :
          i # j => feats[observations[i].features].parameters
                     # feats[observations[j].features].parameters
    /\ \A i \in 1..Len(observations), a \in ArmNames :
          feats[observations[i].features].parameters # arms_by_name[a]
    /\ call.op \in {"set_parameter", "update_features"} =>
          /\ ArmsView(dicts) = call.arms_before
          /\ \A f \in 1..Len(feats) :
                f # call.self =>
                    View(dicts, feats, f).parameters = call.feats_before[f].parameters

\* A write that changed one Observation's parameters while another
\* Observation of the same arm exists.
C5_Witness ==
    /\ call.op = "set_parameter"
    /\ View(dicts, feats, call.self).parameters # call.feats_before[call.self].parameters
    /\ \E i, j \in 1..Len(observations) :
          /\ i # j
          /\ observations[i].features = call.self
          /\ observations[j].arm_name = observations[i].arm_name

(***************************************************************************)
(* C6: from_arm returns a Feature Point whose parameters is a fresh copy   *)
(* of the arm's mapping: it has the arm's entries and the supplied context *)
(* (unset where none is supplied), and a later update_features on it       *)
(* leaves the arm's mapping as it was.                                     *)
(***************************************************************************)
C6_FromArmFreshCopy ==
    /\ call.op = "from_arm" =>
          /\ View(dicts, feats, call.self).parameters = call.arm_before
          /\ \A f \in CtxFields : feats[call.self][f] = call.ctx[f]
    /\ (call.op = "update_features" /\ origin[call.self] # "") =>
          dicts[arms_by_name[origin[call.self]]] = call.arms_before[origin[call.self]]

(***************************************************************************)
(* C7: A.update_features(B) returns A; afterwards every key of             *)
(* B.parameters maps to B's value in A.parameters, every other key of A    *)
(* keeps its value, no key is removed, and each context field of A is B's  *)
(* when B's is set and A's previous value when B's is unset.               *)
(***************************************************************************)
C7_UpdateFeatures ==
    call.op = "update_features" =>
        LET A0 == call.self_before
            B0 == call.new_before
            A == View(dicts, feats, call.self)
        IN  /\ returned = call.self
            /\ \A k \in DOMAIN B0.parameters :
                  k \in DOMAIN A.parameters /\ A.parameters[k] = B0.parameters[k]
            /\ \A k \in DOMAIN A0.parameters \ DOMAIN B0.parameters :
                  k \in DOMAIN A.parameters /\ A.parameters[k] = A0.parameters[k]
            /\ DOMAIN A0.parameters \subseteq DOMAIN A.parameters
            /\ \A f \in CtxFields :
                  A[f] = IF B0[f] # None THEN B0[f] ELSE A0[f]

\* A merge with a colliding key, a key of A alone, a field B overwrites and a
\* field B leaves alone.
C7_Witness ==
    /\ call.op = "update_features"
    /\ call.self # call.new
    /\ \E k \in DOMAIN call.self_before.parameters \cap DOMAIN call.new_before.parameters :
          call.self_before.parameters[k] # call.new_before.parameters[k]
    /\ DOMAIN call.self_before.parameters \ DOMAIN call.new_before.parameters # {}
    /\ \E f \in CtxFields :
          /\ call.new_before[f] # None
          /\ call.self_before[f] # None
          /\ call.new_before[f] # call.self_before[f]
    /\ \E f \in CtxFields : call.new_before[f] = None /\ call.self_before[f] # None

InitData ==
    /\ dicts \in Registries
    /\ feats = <<>>
    /\ datas = <<>>
    /\ df = NoTable
    /\ observations = <<>>
    /\ separated = <<>>
    /\ returned = 0
    /\ raised = ""
    /\ call = NoCall
    /\ origin = <<>>
    /\ args \in { [metric_names |-> SubSeq(MetricNames, 1, k),
                   means |-> Zeros(ms), covariance |-> Zeros(cs)] :
                    k \in 0..MaxK, ms \in Shapes, cs \in Shapes }

NextData == NewObservationData(args.metric_names, args.means, args.covariance)

SpecData == InitData /\ [][NextData]_vars

(***************************************************************************)
(* C8: separate_observations returns two sequences as long as its input,   *)
(* index i holding the Feature Point and Outcome Bundle of Observation i.  *)
(* With copy=True a later write to a returned Feature Point's parameters   *)
(* or context fields leaves the input's Feature Points unchanged, and the  *)
(* other way round; with copy=False the returned elements are the objects  *)
(* the Observations hold.                                                  *)
(***************************************************************************)
Range(seq) == { seq[i] : i \in 1..Len(seq) }

C8_SeparateObservations ==
    separated # <<>> =>
        LET obs == separated.observations
            F == separated.observation_features
            T == separated.observation_data
            held == { obs[i].features : i \in 1..Len(obs) }
            written == call.op \in {"set_parameter", "set_field"}
        IN  /\ Len(F) = Len(obs)
            /\ Len(T) = Len(obs)
            /\ call.op = "separate_observations" =>
                  \A i \in 1..Len(obs) :
                      /\ View(dicts, feats, F[i]) = View(dicts, feats, obs[i].features)
                      /\ datas[T[i]] = datas[obs[i].data]
            /\ ~separated.copy =>
                  \A i \in 1..Len(obs) :
                      F[i] = obs[i].features /\ T[i] = obs[i].data
            /\ (separated.copy /\ written /\ call.self \in Range(F)) =>
                  \A f \in held : View(dicts, feats, f) = call.feats_before[f]
            /\ (separated.copy /\ written /\ call.self \in held) =>
                  \A f \in Range(F) : View(dicts, feats, f) = call.feats_before[f]

\* A parameter written through a copy that separate_observations returned.
C8_Witness ==
    /\ separated # <<>>
    /\ separated.copy
    /\ call.op = "set_parameter"
    /\ call.self \in Range(separated.observation_features)
    /\ View(dicts, feats, call.self) # call.feats_before[call.self]

(***************************************************************************)
(* C9: constructing an ObservationData with k metric names succeeds if and *)
(* only if means has shape (k,) and covariance has shape (k, k); otherwise *)
(* it raises and no object is created, so every ObservationData has        *)
(* len(means) = len(metric_names) and covariance of shape (k, k).          *)
(***************************************************************************)
C9_ShapeCheck ==
    /\ call.op = "ObservationData" =>
          LET k == Len(call.metric_names)
              fits == /\ call.means.shape = <<k>>
                      /\ call.covariance.shape = <<k, k>>
          IN  /\ (raised = "") <=> fits
              /\ fits => datas = Append(call.datas_before,
                              [metric_names |-> call.metric_names,
                               means |-> call.means,
                               covariance |-> call.covariance])
              /\ ~fits => raised = "ValueError" /\ datas = call.datas_before
    /\ \A d \in 1..Len(datas) :
          /\ Len(datas[d].means.data) = Len(datas[d].metric_names)
          /\ datas[d].means.shape = <<Len(datas[d].metric_names)>>
          /\ datas[d].covariance.shape =
                <<Len(datas[d].metric_names), Len(datas[d].metric_names)>>

\* One construction that succeeded with k > 0 ...
C9_Witness ==
    /\ call.op = "ObservationData"
    /\ raised = ""
    /\ Len(call.metric_names) = MaxK
    /\ Len(datas) = 1

\* ... and one refused for its covariance alone.
C9_WitnessRefused ==
    /\ call.op = "ObservationData"
    /\ raised = "ValueError"
    /\ call.means.shape = <<Len(call.metric_names)>>
    /\ datas = <<>>

====
